---- MODULE Spec2Model ----
(***************************************************************************)
(* Model of the two EcoCash browser widgets:                               *)
(*   - the fee calculator (assets/js/scriptd5f7.js), and                   *)
(*   - the agent locator (class EcocashLocator, src/unnamed/part_000).     *)
(* Strings whose characters the code inspects (the amount, the transaction *)
(* type) are sequences of one-character strings, so that trim, parseFloat, *)
(* isNaN and toUpperCase are computed the way the code computes them.      *)
(* The page markup is not part of the sources; the model assumes what the  *)
(* script itself assumes: every input sits in its own .ecocash-form-group  *)
(* and the results container starts empty and hidden.                      *)
(***************************************************************************)
EXTENDS Integers, Sequences, FiniteSets, TLC

VARIABLES
    amountVal,      \* $('#ecocash-amount').val()
    currencyVal,    \* $('#ecocash-currency').val()
    typeVal,        \* $('#ecocash-transaction-type').val()
    amountFocused,  \* #ecocash-amount is document.activeElement
    hasError,       \* fields whose .ecocash-form-group carries has-error
    errorText,      \* field -> text of its .ecocash-error-text ("" = none)
    warning,        \* #ecocash-amount-warning: the text it shows, "" while hidden
    limitExceeded,  \* #ecocash-amount has class limit-exceeded
    results,        \* #ecocash-results-container
    clearHint,      \* a .ecocash-clear-hint element exists
    calcPending,    \* calculator $.ajax requests in flight (their closures)
    fades,          \* fadeOut animations of the results container still queued
    last,           \* what the last handler run did (event, requests, renders, fault)
    locator         \* this.state of EcocashLocator plus its requests in flight

calcVars == <<amountVal, currencyVal, typeVal, amountFocused, hasError, errorText, warning,
              limitExceeded, results, clearHint, calcPending, fades, last>>
vars == <<amountVal, currencyVal, typeVal, amountFocused, hasError, errorText, warning,
          limitExceeded, results, clearHint, calcPending, fades, last, locator>>

(***************************************************************************)
(* Bounds of the model.                                                    *)
(***************************************************************************)
MaxPending == 1     \* calculator requests in flight at once
MaxFades == 1       \* fadeOut animations queued at once

(***************************************************************************)
(* Characters and numbers.                                                 *)
(***************************************************************************)
Digits == {"0", "1", "2", "3", "4", "5", "6", "7", "8", "9"}

DigitVal(c) ==
    CASE c = "0" -> 0 [] c = "1" -> 1 [] c = "2" -> 2 [] c = "3" -> 3
      [] c = "4" -> 4 [] c = "5" -> 5 [] c = "6" -> 6 [] c = "7" -> 7
      [] c = "8" -> 8 [] c = "9" -> 9

RECURSIVE Pow10(_)
Pow10(n) == IF n = 0 THEN 1 ELSE 10 * Pow10(n - 1)

\* String.prototype.trim, for the white space character " ".
RECURSIVE TrimLeft(_)
TrimLeft(s) ==
    IF s # <<>> /\ Head(s) = " " THEN TrimLeft(Tail(s)) ELSE s

RECURSIVE TrimRight(_)
TrimRight(s) ==
    IF s # <<>> /\ s[Len(s)] = " " THEN TrimRight(SubSeq(s, 1, Len(s) - 1)) ELSE s

trim(s) == TrimLeft(TrimRight(s))

\* What the user can type into the amount field: nothing, zero, a padded
\* amount at the USD ceiling, one just above it that the blur handler rounds
\* down to it, digits followed by letters, and an amount above the ZWG
\* ceiling.
AmountInputs ==
    { <<>>,
      <<"0">>,
      <<" ", "5", "0", "0", " ">>,
      <<"5", "0", "0", ".", "0", "0", "4">>,
      <<"6", "0", "0", "a", "b", "c">>,
      <<"8", "0", "0", "1">> }

\* The amounts of RespSpec: a first keystroke and a complete amount.
RespAmounts == { <<"5">>, <<" ", "5", "0", "0", " ">> }

\* Number of digit characters of s in a row, from position i on.
RECURSIVE DigitRun(_, _)
DigitRun(s, i) ==
    IF i <= Len(s) /\ s[i] \in Digits THEN 1 + DigitRun(s, i + 1) ELSE 0

\* Value of the digit string d (0 for the empty one).
RECURSIVE DigitsValue(_)
DigitsValue(d) ==
    IF d = <<>> THEN 0
    ELSE 10 * DigitsValue(SubSeq(d, 1, Len(d) - 1)) + DigitVal(d[Len(d)])

NaN == [nan |-> TRUE, neg |-> FALSE, num |-> 0, exp |-> 0]

\* The longest prefix of s (after leading white space) that is a decimal
\* literal: [sign] digits [. digits] or [sign] . digits. Gives the number
\* (-1)^neg * num / 10^exp and how many characters of s it spans; strings of
\* the model hold no exponent, hex prefix or "Infinity".
ScanDecimal(s) ==
    LET t == TrimLeft(s)
        skipped == Len(s) - Len(t)
        signed == t # <<>> /\ Head(t) \in {"+", "-"}
        neg == t # <<>> /\ Head(t) = "-"
        i0 == IF signed THEN 2 ELSE 1
        nInt == DigitRun(t, i0)
        dot == i0 + nInt <= Len(t) /\ t[i0 + nInt] = "."
        nFrac == IF dot THEN DigitRun(t, i0 + nInt + 1) ELSE 0
        intDigits == SubSeq(t, i0, i0 + nInt - 1)
        fracDigits == SubSeq(t, i0 + nInt + 1, i0 + nInt + nFrac)
        span == skipped + (i0 - 1) + nInt + (IF dot THEN 1 + nFrac ELSE 0)
    IN  IF nInt = 0 /\ nFrac = 0
        THEN [value |-> NaN, span |-> 0]
        ELSE [value |-> [nan |-> FALSE, neg |-> neg,
                         num |-> DigitsValue(intDigits \o fracDigits),
                         exp |-> nFrac],
              span |-> span]

\* The decimal digits of the natural number n.
DigitChars == <<"0", "1", "2", "3", "4", "5", "6", "7", "8", "9">>

RECURSIVE DigitsOf(_)
DigitsOf(n) ==
    IF n < 10 THEN <<DigitChars[n + 1]>>
    ELSE DigitsOf(n \div 10) \o <<DigitChars[(n % 10) + 1]>>

\* v.toFixed(2) for a parsed number v > 0: v rounded to hundredths. A value
\* half way between two hundredths is rounded by its binary expansion; the
\* strings of the model hold none, and the operator rounds it up.
toFixed2(v) ==
    LET cut == IF v.exp > 2 THEN Pow10(v.exp - 2) ELSE 1
        hundredths == IF v.exp <= 2 THEN v.num * Pow10(2 - v.exp)
                      ELSE (v.num \div cut) + (IF 2 * (v.num % cut) >= cut THEN 1 ELSE 0)
    IN  DigitsOf(hundredths \div 100)
            \o <<".", DigitChars[((hundredths \div 10) % 10) + 1],
                      DigitChars[(hundredths % 10) + 1]>>

\* The blur handler at lines 327-332: a field whose text parses as a number
\* above zero is rewritten with two decimals.
FormatOnBlur(text) ==
    LET amount == ScanDecimal(text).value
    IN  IF ~amount.nan /\ ~amount.neg /\ amount.num > 0 THEN toFixed2(amount) ELSE text

\* parseFloat(s): the number a leading decimal literal denotes, else NaN.
parseFloat(s) == ScanDecimal(s).value

\* isNaN(s) for a string s: Number(s) is NaN unless the whole trimmed string
\* is a decimal literal; Number("") is 0.
isNaN(s) ==
    LET t == trim(s)
        scanned == ScanDecimal(t)
    IN  t # <<>> /\ (scanned.value.nan \/ scanned.span # Len(t))

\* v > c and v <= c for a parsed number v and an integer c >= 0; every
\* comparison with NaN is false.
GreaterThan(v, c) == ~v.nan /\ ~v.neg /\ v.num > c * Pow10(v.exp)
LessOrEqual(v, c) == ~v.nan /\ (v.neg \/ v.num <= c * Pow10(v.exp))

\* String.prototype.toUpperCase for the letters the model uses.
UpperChar(c) ==
    CASE c = "a" -> "A" [] c = "c" -> "C" [] c = "d" -> "D" [] c = "e" -> "E"
      [] c = "h" -> "H" [] c = "m" -> "M" [] c = "n" -> "N" [] c = "o" -> "O"
      [] c = "s" -> "S" [] c = "t" -> "T" [] c = "u" -> "U" [] c = "y" -> "Y"
      [] OTHER -> c

toUpperCase(s) == [i \in 1..Len(s) |-> UpperChar(s[i])]

(***************************************************************************)
(* Fee calculator: constants and inputs.                                   *)
(***************************************************************************)
UsdCeiling == 500
ZwgCeiling == 8000

Fields == {"ecocash-amount", "ecocash-currency", "ecocash-transaction-type"}

MsgEnterAmount == "Please enter an amount"
MsgNotNumber == "Amount must be a number"
MsgNotPositive == "Amount must be greater than zero"
MsgSelectCurrency == "Please select a currency"
MsgSelectType == "Please select a transaction type"
MsgUsdLimit == "USD transactions cannot exceed $500"
MsgZwgLimit == "ZWG transactions cannot exceed 8000"
MsgFailed == "Failed to calculate tariff"
MsgConnection == "Connection error. Please try again later."

\* The options of the currency select ("" is the placeholder).
CurrencyOptions == {"", "USD", "ZWG"}

sendmoney == <<"s", "e", "n", "d", "m", "o", "n", "e", "y">>
SENDMONEY == <<"S", "E", "N", "D", "M", "O", "N", "E", "Y">>
cashout == <<"c", "a", "s", "h", "o", "u", "t">>

\* The options of the transaction type select that Spec draws (<<>> is the
\* placeholder); RaceSpec draws cashout, a type outside typeMap.
TypeOptions == {<<>>, sendmoney}

(***************************************************************************)
(* Fee calculator: helpers of the script.                                  *)
(***************************************************************************)
NoErrors == [hasError |-> {}, errorText |-> [f \in Fields |-> ""]]

\* showFieldError: mark the field's group; add the text unless the field
\* already has one.
showFieldError(form, fieldId, message) ==
    [hasError |-> form.hasError \cup {fieldId},
     errorText |-> IF form.errorText[fieldId] = ""
                   THEN [form.errorText EXCEPT ![fieldId] = message]
                   ELSE form.errorText]

\* Mutant of convertTransactionType: the selection passed on as it is.
convertTransactionTypeRaw(type) == type

\* convertTransactionType: typeMap[type] || type.toUpperCase()
convertTransactionType(type) ==
    IF type \in {sendmoney, SENDMONEY} THEN SENDMONEY ELSE toUpperCase(type)

\* The results container: whether it is displayed, and what its html holds
\* ("empty", "loading", "breakdown" or "error", with the error text or the
\* currency of the breakdown). The class "show" is left to the style sheet.
HiddenResults ==
    [visible |-> FALSE, kind |-> "empty", msg |-> "", currency |-> ""]

\* resultsDiv.html(<spinner>).show()
showSpinner(res) ==
    [res EXCEPT !.visible = TRUE, !.kind = "loading", !.msg = "", !.currency = ""]

\* showSuccess: the fee breakdown, with the currency of the submission
\* (the formatted figures are not part of the model).
showSuccess(res, currency) ==
    [visible |-> TRUE, kind |-> "breakdown", msg |-> "", currency |-> currency]

\* showError: the error box with the message.
showError(res, message) ==
    [res EXCEPT !.visible = TRUE, !.kind = "error", !.msg = message, !.currency = ""]

(***************************************************************************)
(* Fee calculator: validation of one click (lines 15-60).                  *)
(***************************************************************************)
AmountError(amount) ==
    IF amount = <<>> THEN MsgEnterAmount
    ELSE IF isNaN(amount) THEN MsgNotNumber
    ELSE IF LessOrEqual(parseFloat(amount), 0) THEN MsgNotPositive
    ELSE ""

\* Mutant of BasicValidation: the checks chained with else, so that only the
\* first failing field is reported.
BasicValidationFirstOnly(amount, currency, transactionType) ==
    IF AmountError(amount) # ""
    THEN showFieldError(NoErrors, "ecocash-amount", AmountError(amount))
    ELSE IF currency = ""
    THEN showFieldError(NoErrors, "ecocash-currency", MsgSelectCurrency)
    ELSE IF transactionType = <<>>
    THEN showFieldError(NoErrors, "ecocash-transaction-type", MsgSelectType)
    ELSE NoErrors

\* The field errors of the basic validation, in the order the code shows them.
BasicValidation(amount, currency, transactionType) ==
    LET f1 == IF AmountError(amount) # ""
              THEN showFieldError(NoErrors, "ecocash-amount", AmountError(amount))
              ELSE NoErrors
        f2 == IF currency = ""
              THEN showFieldError(f1, "ecocash-currency", MsgSelectCurrency)
              ELSE f1
        f3 == IF transactionType = <<>>
              THEN showFieldError(f2, "ecocash-transaction-type", MsgSelectType)
              ELSE f2
    IN  f3

\* Mutant of LimitError: >= in place of >.
LimitErrorAtCeiling(amount, currency) ==
    LET v == parseFloat(amount)
        atLeast(c) == ~v.nan /\ ~v.neg /\ v.num >= c * Pow10(v.exp)
    IN  IF currency = "USD" /\ atLeast(UsdCeiling) THEN MsgUsdLimit
        ELSE IF currency = "ZWG" /\ atLeast(ZwgCeiling) THEN MsgZwgLimit
        ELSE ""

\* The ceiling message of the limit check, "" when the amount is within it.
LimitError(amount, currency) ==
    IF currency = "USD" /\ GreaterThan(parseFloat(amount), UsdCeiling) THEN MsgUsdLimit
    ELSE IF currency = "ZWG" /\ GreaterThan(parseFloat(amount), ZwgCeiling) THEN MsgZwgLimit
    ELSE ""

\* The outcome of the click handler on the form values: "invalid" (return at
\* line 44), "limit" (return at line 52 or 59) or "submit".
ClickOutcome(amount, currency, transactionType) ==
    IF BasicValidation(amount, currency, transactionType).hasError # {} THEN "invalid"
    ELSE IF LimitError(amount, currency) # "" THEN "limit"
    ELSE "submit"

(***************************************************************************)
(* Fee calculator: backend responses.                                      *)
(* A JSON value is a record: type is "null", "number", "string", "boolean" *)
(* or "object"; success is "true", "false", "absent" or "other" (present    *)
(* but no boolean); a text property is "" when absent or falsy; response is *)
(* the nested legacy object (type "absent" when there is none).            *)
(***************************************************************************)
NoNested == [type |-> "absent", status |-> "", statusMessage |-> "", responseCode |-> ""]

Scalar(type) ==
    [type |-> type, success |-> "absent", responseMessage |-> "", message |-> "",
     status |-> "", statusMessage |-> "", responseCode |-> "", response |-> NoNested]

\* What a handler run leaves in the variable last: the event handled, the
\* $.ajax requests it issued, the response it was given (type "none" for a
\* handler without one), its showSuccess/showError calls, whether it ended
\* in an uncaught exception, and for a callback of $.ajax whether its
\* request was the latest one submitted and whether the calculator was reset
\* after its submission.
Idle(event) ==
    [event |-> event, requests |-> <<>>, response |-> Scalar("none"), renders |-> <<>>,
     fault |-> FALSE, currency |-> "", latest |-> TRUE, newest |-> "", cleared |-> FALSE]

LegacyStates ==
    [status : {"", "200", "500"}, statusMessage : {"", "SUCCEEDED", "FAILED"},
     responseCode : {"", "00"}]

JsonResponses ==
    { Scalar(t) : t \in {"null", "number", "string", "boolean"} }
    \cup
    \* the current format: a boolean success flag
    { [Scalar("object") EXCEPT !.success = sc, !.responseMessage = rm, !.message = m,
                               !.status = st] :
        sc \in {"true", "false"}, rm \in {"", "Limit exceeded"},
        m \in {"", "Bad request"}, st \in {"", "200"} }
    \cup
    \* the legacy format, flat
    { [Scalar("object") EXCEPT !.success = f.success, !.responseMessage = f.responseMessage,
                               !.status = l.status, !.statusMessage = l.statusMessage,
                               !.responseCode = l.responseCode] :
        f \in { [success |-> "absent", responseMessage |-> ""],
                [success |-> "absent", responseMessage |-> "Limit exceeded"],
                [success |-> "other", responseMessage |-> ""] },
        l \in LegacyStates }
    \cup
    \* the legacy format, nested under response
    { [Scalar("object") EXCEPT !.status = st,
                               !.response = [type |-> nt, status |-> l.status,
                                             statusMessage |-> l.statusMessage,
                                             responseCode |-> l.responseCode]] :
        st \in {"", "200"}, nt \in {"object"}, l \in LegacyStates }
    \cup
    { [Scalar("object") EXCEPT !.status = st, !.response = [NoNested EXCEPT !.type = "string"]] :
        st \in {"", "200"} }

\* response.<name> for a text property: undefined ("") on a value that is no object.
Prop(v, name) == IF v.type = "object" THEN v[name] ELSE ""

\* const apiResponse = response.response || response (line 94), as the three
\* properties the legacy check reads.
LegacyView(response) ==
    IF response.type = "object" /\ response.response.type # "absent"
    THEN IF response.response.type = "object"
         THEN [status |-> response.response.status,
               statusMessage |-> response.response.statusMessage,
               responseCode |-> response.response.responseCode]
         ELSE [status |-> "", statusMessage |-> "", responseCode |-> ""]
    ELSE [status |-> Prop(response, "status"),
          statusMessage |-> Prop(response, "statusMessage"),
          responseCode |-> Prop(response, "responseCode")]

\* a || b || c on text properties
OrElse(a, b) == IF a # "" THEN a ELSE b

\* Mutant of SuccessCallback: the legacy check without responseCode.
SuccessCallbackNoCode(response) ==
    IF response.type = "null" THEN [fn |-> "TypeError", msg |-> ""]
    ELSE IF response.type = "object" /\ response.success = "true"
    THEN [fn |-> "showSuccess", msg |-> ""]
    ELSE IF response.type = "object" /\ response.success = "false"
    THEN [fn |-> "showError",
          msg |-> OrElse(response.responseMessage, OrElse(response.message, MsgFailed))]
    ELSE LET apiResponse == LegacyView(response)
         IN  IF apiResponse.status = "200" \/ apiResponse.statusMessage = "SUCCEEDED"
             THEN [fn |-> "showSuccess", msg |-> ""]
             ELSE [fn |-> "showError",
                   msg |-> OrElse(apiResponse.statusMessage,
                                  OrElse(Prop(response, "responseMessage"), MsgFailed))]

\* The success callback (lines 81-107): the call it ends with, or the
\* TypeError that reading a property of null raises.
SuccessCallback(response) ==
    IF response.type = "null" THEN [fn |-> "TypeError", msg |-> ""]
    ELSE IF response.type = "object" /\ response.success = "true"
    THEN [fn |-> "showSuccess", msg |-> ""]
    ELSE IF response.type = "object" /\ response.success = "false"
    THEN [fn |-> "showError",
          msg |-> OrElse(response.responseMessage, OrElse(response.message, MsgFailed))]
    ELSE LET apiResponse == LegacyView(response)
         IN  IF \/ apiResponse.status = "200"
                \/ apiResponse.statusMessage = "SUCCEEDED"
                \/ apiResponse.responseCode = "00"
             THEN [fn |-> "showSuccess", msg |-> ""]
             ELSE [fn |-> "showError",
                   msg |-> OrElse(apiResponse.statusMessage,
                                  OrElse(Prop(response, "responseMessage"), MsgFailed))]

\* xhr.responseText of a failed request: no JSON at all, JSON null, or a JSON
\* object with or without a message.
ErrorBodies ==
    { [json |-> "invalid", message |-> ""], [json |-> "null", message |-> ""],
      [json |-> "object", message |-> ""], [json |-> "object", message |-> "Invalid nonce"] }

\* The error callback (lines 108-122): JSON.parse and the read of .message
\* are inside the try block.
ErrorCallback(xhr) ==
    [fn |-> "showError",
     msg |-> IF xhr.json = "object" /\ xhr.message # "" THEN xhr.message ELSE MsgConnection]


(***************************************************************************)
(* Fee calculator: the event handlers.                                     *)
(***************************************************************************)
\* The real-time limit check (lines 303-324) on the values just read: the
\* text the warning shows afterwards ("" = hidden). The handler sets or
\* removes the class limit-exceeded along with it.
LimitWarning(amountText, currency) ==
    LET amount == parseFloat(amountText)
    IN  IF amount.nan THEN ""
        ELSE IF currency = "USD" /\ GreaterThan(amount, UsdCeiling) THEN MsgUsdLimit
        ELSE IF currency = "ZWG" /\ GreaterThan(amount, ZwgCeiling) THEN MsgZwgLimit
        ELSE ""

\* The clear hint after an input event on the amount (lines 343-351, 361-365).
HintAfterInput(text, hint, res) ==
    LET added == hint \/ (res.visible /\ Len(text) = 1)
    IN  IF text = <<>> THEN FALSE ELSE added

\* The user edits the amount, with the focus in the field: the input
\* handlers at lines 303, 343 and 361.
InputAmount(text) ==
    /\ text # amountVal
    /\ amountVal' = text
    /\ amountFocused' = TRUE
    /\ warning' = LimitWarning(text, currencyVal)
    /\ limitExceeded' = (warning' # "")
    /\ clearHint' = HintAfterInput(text, clearHint, results)
    /\ last' = Idle("input")
    /\ UNCHANGED <<currencyVal, typeVal, hasError, errorText, results, calcPending,
                   fades, locator>>

\* The amount field receives the focus: from the timers at lines 158 and 408,
\* or from the user. No handler listens.
FocusAmount ==
    /\ ~amountFocused
    /\ amountFocused' = TRUE
    /\ UNCHANGED <<amountVal, currencyVal, typeVal, hasError, errorText, warning,
                   limitExceeded, results, clearHint, calcPending, fades, last, locator>>

\* The amount field loses the focus: the blur handlers at lines 327 and 382
\* (the second moves the focus on, to the currency, when none is selected).
BlurAmount ==
    /\ amountFocused
    /\ amountFocused' = FALSE
    /\ amountVal' = FormatOnBlur(amountVal)
    /\ last' = Idle("blur")
    /\ UNCHANGED <<currencyVal, typeVal, hasError, errorText, warning, limitExceeded,
                   results, clearHint, calcPending, fades, locator>>

\* The change event of the amount field (fired before the blur event when
\* the field loses the focus after an edit): the handler at line 303 alone.
ChangeAmount ==
    /\ warning' = LimitWarning(amountVal, currencyVal)
    /\ limitExceeded' = (warning' # "")
    /\ last' = Idle("input")
    /\ UNCHANGED <<amountVal, currencyVal, typeVal, hasError, errorText, results,
                   clearHint, calcPending, fades, locator, amountFocused>>

\* The change event of the currency: the handler at line 303, then the one
\* at line 388, which moves the focus to the transaction type while none is
\* selected; an amount field that had the focus loses it and runs its blur
\* handlers. A browser that gives the focus to a select the user clicks has
\* taken it from the amount field before (BlurAmount).
ChangeCurrency(currency) ==
    LET moves == currency # "" /\ typeVal = <<>>
    IN  /\ currency # currencyVal
        /\ currencyVal' = currency
        /\ warning' = LimitWarning(amountVal, currency)
        /\ limitExceeded' = (warning' # "")
        /\ amountVal' = IF moves /\ amountFocused THEN FormatOnBlur(amountVal) ELSE amountVal
        /\ amountFocused' = IF moves THEN FALSE ELSE amountFocused
        /\ last' = Idle("input")
        /\ UNCHANGED <<typeVal, hasError, errorText, results, clearHint,
                       calcPending, fades, locator>>

\* The change event of the transaction type: the handler at line 394 moves
\* the focus to the calculate button once the three fields are filled.
ChangeType(type) ==
    LET moves == type # <<>> /\ amountVal # <<>> /\ currencyVal # ""
    IN  /\ type # typeVal
        /\ typeVal' = type
        /\ amountVal' = IF moves /\ amountFocused THEN FormatOnBlur(amountVal) ELSE amountVal
        /\ amountFocused' = IF moves THEN FALSE ELSE amountFocused
        /\ last' = Idle("type")
        /\ UNCHANGED <<currencyVal, hasError, errorText, warning, limitExceeded,
                       results, clearHint, calcPending, fades, locator>>

\* The requests in flight are kept with the currency of their closure and
\* with notes for the record: latest, no later submission was made; newest,
\* the currency of the latest submission; cleared, clearCalculator ran after
\* the submission. MarkAll notes a new submission (submitted = <<currency>>)
\* or a reset (reset) on all of them.
MarkAll(pending, submitted, reset) ==
    [k \in 1..Len(pending) |->
        [pending[k] EXCEPT !.latest = IF submitted # <<>> THEN FALSE ELSE @,
                           !.newest = IF submitted # <<>> THEN submitted[1] ELSE @,
                           !.cleared = IF reset THEN TRUE ELSE @]]

\* A click of #ecocash-calculate-btn (or Enter in a field, line 374): the
\* handler at line 4, then the one at line 368. At most maxPending requests
\* are kept in flight.
CalculateClick(maxPending) ==
    LET amount == trim(amountVal)
        currency == currencyVal
        outcome == ClickOutcome(amount, currency, typeVal)
        basic == BasicValidation(amount, currency, typeVal)
        limit == LimitError(amount, currency)
        request == [amount |-> amount, currency |-> currency,
                    transactionType |-> convertTransactionType(typeVal)]
    IN  /\ outcome = "submit" => Len(calcPending) < maxPending
        /\ clearHint' = FALSE
        /\ UNCHANGED <<amountVal, currencyVal, typeVal, fades, locator, amountFocused>>
        /\ CASE outcome = "invalid" ->
                  /\ hasError' = basic.hasError
                  /\ errorText' = basic.errorText
                  /\ warning' = ""
                  /\ limitExceeded' = FALSE
                  /\ last' = Idle("calculate")
                  /\ UNCHANGED <<results, calcPending>>
             [] outcome = "limit" ->
                  /\ hasError' = showFieldError(NoErrors, "ecocash-amount", limit).hasError
                  /\ errorText' = showFieldError(NoErrors, "ecocash-amount", limit).errorText
                  /\ warning' = limit
                  /\ limitExceeded' = TRUE
                  /\ last' = Idle("calculate")
                  /\ UNCHANGED <<results, calcPending>>
             [] outcome = "submit" ->
                  /\ hasError' = {}
                  /\ errorText' = NoErrors.errorText
                  /\ warning' = ""
                  /\ limitExceeded' = FALSE
                  /\ results' = showSpinner(results)
                  /\ calcPending' = Append(MarkAll(calcPending, <<currency>>, FALSE),
                                           [currency |-> currency, latest |-> TRUE,
                                            newest |-> currency, cleared |-> FALSE])
                  /\ last' = [Idle("calculate") EXCEPT !.requests = <<request>>]

\* What a callback's final call does to the results container; a TypeError
\* leaves it as it is.
Render(call, res, currency) ==
    CASE call.fn = "showSuccess" -> showSuccess(res, currency)
      [] call.fn = "showError" -> showError(res, call.msg)
      [] OTHER -> res

RemoveAt(seq, i) == SubSeq(seq, 1, i - 1) \o SubSeq(seq, i + 1, Len(seq))

\* The request answered: $.ajax runs the success callback of request i.
AjaxSuccess(i, response) ==
    LET call == SuccessCallback(response)
    IN  /\ results' = Render(call, results, calcPending[i].currency)
        /\ calcPending' = RemoveAt(calcPending, i)
        /\ last' = [event |-> "success", requests |-> <<>>, response |-> response,
                    renders |-> IF call.fn = "TypeError" THEN <<>> ELSE <<call>>,
                    fault |-> call.fn = "TypeError",
                    currency |-> calcPending[i].currency,
                    latest |-> calcPending[i].latest, newest |-> calcPending[i].newest,
                    cleared |-> calcPending[i].cleared]
        /\ UNCHANGED <<amountVal, currencyVal, typeVal, hasError, errorText, warning,
                       limitExceeded, clearHint, fades, locator, amountFocused>>

\* The request failed (network, HTTP status, unparseable body): the error callback.
AjaxError(i, xhr) ==
    LET call == ErrorCallback(xhr)
    IN  /\ results' = Render(call, results, calcPending[i].currency)
        /\ calcPending' = RemoveAt(calcPending, i)
        /\ last' = [Idle("error") EXCEPT !.renders = <<call>>,
                                          !.currency = calcPending[i].currency,
                                          !.latest = calcPending[i].latest,
                                          !.newest = calcPending[i].newest,
                                          !.cleared = calcPending[i].cleared]
        /\ UNCHANGED <<amountVal, currencyVal, typeVal, hasError, errorText, warning,
                       limitExceeded, clearHint, fades, locator, amountFocused>>

\* Mutant of clearCalculator: the call of clearValidationErrors left out.
clearCalculatorKeepsErrors ==
    /\ results.visible => fades < MaxFades
    /\ amountVal' = <<>>
    /\ currencyVal' = ""
    /\ typeVal' = <<>>
    /\ limitExceeded' = FALSE
    /\ warning' = ""
    /\ fades' = IF results.visible THEN fades + 1 ELSE fades
    /\ clearHint' = FALSE
    /\ last' = Idle("reset")
    /\ calcPending' = MarkAll(calcPending, <<>>, TRUE)
    /\ UNCHANGED <<hasError, errorText, results, locator, amountFocused>>

\* clearCalculator (lines 133-164); the "cleared" toast touches nothing the
\* model holds, and the timer of line 158 gives the focus later (FocusAmount).
clearCalculator ==
    /\ results.visible => fades < MaxFades
    /\ amountVal' = <<>>
    /\ currencyVal' = ""
    /\ typeVal' = <<>>
    /\ hasError' = {}
    /\ errorText' = NoErrors.errorText
    /\ warning' = ""
    /\ limitExceeded' = FALSE
    /\ fades' = IF results.visible THEN fades + 1 ELSE fades
    /\ clearHint' = FALSE
    /\ last' = Idle("reset")
    /\ calcPending' = MarkAll(calcPending, <<>>, TRUE)
    /\ UNCHANGED <<results, locator, amountFocused>>

\* #ecocash-clear-btn exists inside a rendered breakdown or error box.
ClearButtonClick ==
    /\ results.visible /\ results.kind \in {"breakdown", "error"}
    /\ clearCalculator

\* #auto-clear-link exists inside the clear hint.
AutoClearLinkClick ==
    /\ clearHint
    /\ clearCalculator

\* Ctrl+R or Cmd+R while the results container is visible (line 336).
ClearShortcut ==
    /\ results.visible
    /\ clearCalculator

\* A queued fadeOut of the results container ends: the element is hidden and
\* the callback at line 146 empties it.
FadeOutDone ==
    /\ fades > 0
    /\ fades' = fades - 1
    /\ results' = HiddenResults
    /\ last' = Idle("fade")
    /\ UNCHANGED <<amountVal, currencyVal, typeVal, hasError, errorText, warning,
                   limitExceeded, clearHint, calcPending, locator, amountFocused>>

(***************************************************************************)
(* Agent locator (class EcocashLocator).                                   *)
(* An agent of a backend response is a record; a property the response     *)
(* leaves out is "" (falsy). The backend is opaque: a successful response   *)
(* brings any batch of agents of AgentPool.                                *)
(***************************************************************************)
MaxBatch == 2       \* agents in one backend response

\* distance is a number in a one-element tuple, <<>> when the response
\* leaves it out.
FullAgent(id, representative, city, province, msisdn, distance) ==
    [id |-> id, representative |-> representative, latitude |-> "-17.82",
     longitude |-> "31.05", address |-> "", city |-> city, province |-> province,
     msisdn |-> msisdn, distance |-> distance]

Agent(id, representative, city) == FullAgent(id, representative, city, "", "", <<>>)

\* Two records with the same id and different data, and a second id.
AgentPool ==
    { Agent(1, "Alpha Store", "Harare"),
      Agent(1, "Alpha Kiosk", "Gweru"),
      Agent(2, "Beta Shop", "Harare") }

\* A record without representative.
NamelessAgent == Agent(3, "", "Mutare")

RECURSIVE SeqsUpTo(_, _)
SeqsUpTo(S, n) ==
    IF n = 0 THEN {<<>>}
    ELSE LET shorter == SeqsUpTo(S, n - 1)
         IN  shorter \cup { Append(q, x) : q \in { r \in shorter : Len(r) = n - 1 }, x \in S }

AgentBatches ==
    SeqsUpTo(AgentPool, MaxBatch)
    \cup { <<NamelessAgent>>, <<NamelessAgent, Agent(2, "Beta Shop", "Harare")>> }

\* What a locator request ends with: a response with success and
\* data.agents (a list, or a truthy value that is no array, as an object or
\* a string), a response without them, or a failed request with its HTTP
\* status (0: no connection or timeout) and the data.message of its JSON
\* body, error.responseJSON?.data?.message ("" when the body has none).
LoadErrorBodies == {"", "Nonce expired"}

LoadOutcomes ==
    { [kind |-> "agents", agents |-> b, status |-> 200, message |-> ""] : b \in AgentBatches }
    \cup { [kind |-> k, agents |-> <<>>, status |-> 200, message |-> ""] :
               k \in {"notArray", "noSuccess"} }
    \cup { [kind |-> "failed", agents |-> <<>>, status |-> 0, message |-> ""] }
    \cup { [kind |-> "failed", agents |-> <<>>, status |-> st, message |-> m] :
               st \in {404, 500}, m \in LoadErrorBodies }

\* Agents for the search, the filters and the sort: two with the same name,
\* two cities and provinces, one phone number, and the distances 5, 0 and
\* none.
Bo4 == FullAgent(4, "Bo", "Gweru", "Midlands", "077", <<5>>)
Bo5 == FullAgent(5, "Bo", "Harare", "Harare", "", <<0>>)
Al6 == FullAgent(6, "Al", "Gweru", "Midlands", "", <<>>)

ViewOutcomes == { [kind |-> "agents", agents |-> <<Bo5, Bo4, Al6>>, status |-> 200, message |-> ""] }

\* majorCities of loadInitialAgents, in the order of their timers.
majorCities == <<"Harare", "Bulawayo", "Mutare", "Gweru", "Masvingo", "Bindura">>

HasId(agents, id) == \E i \in 1..Len(agents) : agents[i].id = id

\* Mutant of IsValidNewAgent: the test for an existing id left out.
IsValidAgent(agent, existing) ==
    /\ agent.representative # ""
    /\ agent.latitude # ""
    /\ agent.longitude # ""

\* The filter of processAgentsData (lines 216-223); ids of the model are
\* positive numbers, so agent && agent.id holds.
IsValidNewAgent(agent, existing) ==
    /\ agent.representative # ""
    /\ agent.latitude # ""
    /\ agent.longitude # ""
    /\ ~HasId(existing, agent.id)

\* newAgents.filter(...) of processAgentsData: every agent of the batch is
\* tested against the collection as it was before the call.
RECURSIVE FilterNew(_, _)
FilterNew(newAgents, existing) ==
    IF newAgents = <<>> THEN <<>>
    ELSE LET rest == FilterNew(Tail(newAgents), existing)
         IN  IF IsValidNewAgent(Head(newAgents), existing)
             THEN <<Head(newAgents)>> \o rest
             ELSE rest

(***************************************************************************)
(* Strings of the locator. A string of an agent record stands for its      *)
(* characters, Chars(s); what the user types is a sequence of characters.  *)
(***************************************************************************)
Chars(s) ==
    CASE s = "" -> <<>>
      [] s = "Bo" -> <<"B", "o">>
      [] s = "Al" -> <<"A", "l">>
      [] s = "077" -> <<"0", "7", "7">>
      [] s = "Gweru" -> <<"G", "w", "e", "r", "u">>
      [] s = "Harare" -> <<"H", "a", "r", "a", "r", "e">>
      [] s = "Mutare" -> <<"M", "u", "t", "a", "r", "e">>
      [] s = "Midlands" -> <<"M", "i", "d", "l", "a", "n", "d", "s">>
      [] s = "Alpha Store" -> <<"A", "l", "p", "h", "a", " ", "S", "t", "o", "r", "e">>
      [] s = "Alpha Kiosk" -> <<"A", "l", "p", "h", "a", " ", "K", "i", "o", "s", "k">>
      [] s = "Beta Shop" -> <<"B", "e", "t", "a", " ", "S", "h", "o", "p">>

LowerLetters ==
    <<"a", "b", "c", "d", "e", "f", "g", "h", "i", "j", "k", "l", "m",
      "n", "o", "p", "q", "r", "s", "t", "u", "v", "w", "x", "y", "z">>

UpperLetters ==
    <<"A", "B", "C", "D", "E", "F", "G", "H", "I", "J", "K", "L", "M",
      "N", "O", "P", "Q", "R", "S", "T", "U", "V", "W", "X", "Y", "Z">>

\* String.prototype.toLowerCase.
LowerChar(c) ==
    IF \E k \in 1..26 : UpperLetters[k] = c
    THEN LowerLetters[CHOOSE k \in 1..26 : UpperLetters[k] = c]
    ELSE c

toLowerCase(s) == [i \in 1..Len(s) |-> LowerChar(s[i])]

\* String.prototype.includes.
includes(s, part) ==
    \E i \in 0..(Len(s) - Len(part)) : SubSeq(s, i + 1, i + Len(part)) = part

\* What the user can type into #agent-search.
SearchInputs ==
    { <<>>, <<"B", "O">>, <<"w", "e", " ">> }

\* $('#agent-search').val().toLowerCase().trim() (lines 501, 705).
NormalTerm(text) == trim(toLowerCase(text))

\* Mutant of searchInAgent: the city left out of the search fields.
searchInAgentNoCity(agent, searchTerm) ==
    \E field \in {agent.representative, agent.address, agent.province, agent.msisdn} :
        field # "" /\ includes(toLowerCase(Chars(field)), searchTerm)

\* searchInAgent (lines 522-534).
searchInAgent(agent, searchTerm) ==
    \E field \in {agent.representative, agent.address, agent.city, agent.province,
                  agent.msisdn} :
        field # "" /\ includes(toLowerCase(Chars(field)), searchTerm)

IdsOf(agents) == [i \in 1..Len(agents) |-> agents[i].id]

(***************************************************************************)
(* Sorting (sortAgents, lines 726-742). Array.prototype.sort is stable.    *)
(***************************************************************************)
UnknownDistanceKey == 999999

\* a.distance || 999999 (lines 730-731): 0 is falsy as well.
DistanceKey(agent) ==
    IF agent.distance = <<>> THEN UnknownDistanceKey
    ELSE IF agent.distance[1] = 0 THEN UnknownDistanceKey
    ELSE agent.distance[1]

\* The collation order of String.prototype.localeCompare for blanks, digits
\* and unaccented letters: blank, digits, letters; the letter case decides
\* only between strings that are equal otherwise, lower case first.
Collation ==
    <<" ", "0", "1", "2", "3", "4", "5", "6", "7", "8", "9">> \o LowerLetters

CharRank(c) == CHOOSE k \in 1..Len(Collation) : Collation[k] = LowerChar(c)

RECURSIVE ComparePrimary(_, _)
ComparePrimary(a, b) ==
    IF a = <<>> /\ b = <<>> THEN 0
    ELSE IF a = <<>> THEN -1
    ELSE IF b = <<>> THEN 1
    ELSE IF CharRank(Head(a)) < CharRank(Head(b)) THEN -1
    ELSE IF CharRank(Head(a)) > CharRank(Head(b)) THEN 1
    ELSE ComparePrimary(Tail(a), Tail(b))

RECURSIVE CompareCase(_, _)
CompareCase(a, b) ==
    IF a = <<>> \/ b = <<>> THEN 0
    ELSE IF Head(a) = Head(b) THEN CompareCase(Tail(a), Tail(b))
    ELSE IF Head(a) = LowerChar(Head(a)) THEN -1
    ELSE 1

localeCompare(a, b) ==
    LET primary == ComparePrimary(Chars(a), Chars(b))
    IN  IF primary # 0 THEN primary ELSE CompareCase(Chars(a), Chars(b))

\* The comparators of sortAgents: 'distance', and 'name' or anything else.
Comparator(a, b, sortBy) ==
    IF sortBy = "distance" THEN DistanceKey(a) - DistanceKey(b)
    ELSE localeCompare(a.representative, b.representative)

\* Mutant of InsertSorted: the agent goes in front of the agents it compares
\* equal to.
RECURSIVE InsertSortedInFront(_, _, _)
InsertSortedInFront(sorted, agent, sortBy) ==
    IF sorted = <<>> THEN <<agent>>
    ELSE IF Comparator(sorted[Len(sorted)], agent, sortBy) < 0 THEN Append(sorted, agent)
    ELSE Append(InsertSortedInFront(SubSeq(sorted, 1, Len(sorted) - 1), agent, sortBy),
                sorted[Len(sorted)])

\* One step of a stable sort: the agent goes behind every agent of the sorted
\* list that does not compare greater.
RECURSIVE InsertSorted(_, _, _)
InsertSorted(sorted, agent, sortBy) ==
    IF sorted = <<>> THEN <<agent>>
    ELSE IF Comparator(sorted[Len(sorted)], agent, sortBy) <= 0 THEN Append(sorted, agent)
    ELSE Append(InsertSorted(SubSeq(sorted, 1, Len(sorted) - 1), agent, sortBy),
                sorted[Len(sorted)])

RECURSIVE sortAgents(_, _)
sortAgents(agents, sortBy) ==
    IF agents = <<>> THEN <<>>
    ELSE InsertSorted(sortAgents(SubSeq(agents, 1, Len(agents) - 1), sortBy),
                      agents[Len(agents)], sortBy)

(***************************************************************************)
(* Search and filters.                                                     *)
(***************************************************************************)
\* Mutant of MatchesFilters: the city selection left out.
MatchesFiltersNoArea(agent, searchTerm, selectedRegion, selectedArea) ==
    /\ searchTerm = <<>> \/ searchInAgent(agent, searchTerm)
    /\ selectedRegion = "" \/ agent.province = selectedRegion

\* The filter of applyCurrentFilters (lines 711-717).
MatchesFilters(agent, searchTerm, selectedRegion, selectedArea) ==
    /\ searchTerm = <<>> \/ searchInAgent(agent, searchTerm)
    /\ selectedRegion = "" \/ agent.province = selectedRegion
    /\ selectedArea = "" \/ agent.city = selectedArea

RECURSIVE FilterAgents(_, _, _, _)
FilterAgents(agents, searchTerm, selectedRegion, selectedArea) ==
    IF agents = <<>> THEN <<>>
    ELSE LET rest == FilterAgents(Tail(agents), searchTerm, selectedRegion, selectedArea)
         IN  IF MatchesFilters(Head(agents), searchTerm, selectedRegion, selectedArea)
             THEN <<Head(agents)>> \o rest
             ELSE rest

\* applyCurrentFilters (lines 704-721).
applyCurrentFilters(loc) ==
    [loc EXCEPT !.filteredAgents =
        sortAgents(FilterAgents(loc.agents, NormalTerm(loc.searchTerm), loc.region, loc.area),
                   loc.sortBy)]

(***************************************************************************)
(* Cards, markers and the selection. A card or a marker is named by its    *)
(* position in the rendered list. state.activeMarker is no marker, a       *)
(* marker of the map, or a marker that renderMapMarkers has removed.       *)
(***************************************************************************)
NoMarker == [kind |-> "none", at |-> 0]
RemovedMarker == [kind |-> "removed", at |-> 0]

\* renderAgentCards (lines 250-276): the data-agent-id of each card.
renderAgentCards(filteredAgents) == IdsOf(filteredAgents)

\* Mutant of renderMapMarkers: a marker for the first agent only.
renderMapMarkersFirstOnly(filteredAgents) ==
    IdsOf(SubSeq(filteredAgents, 1, IF filteredAgents = <<>> THEN 0 ELSE 1))

\* renderMapMarkers (lines 342-363): agentData.id of each marker.
renderMapMarkers(filteredAgents) ==
    IdsOf(SelectSeq(filteredAgents, LAMBDA agent : agent.latitude # "" /\ agent.longitude # ""))

\* updateDisplay (lines 241-245): new cards without the class active, new
\* markers with the plain icon; state.activeMarker keeps its marker. Every
\* card and popup is labelled 'Cash In' or 'Cash Out' after the transaction
\* type of this moment (lines 283, 439).
updateDisplay(loc) ==
    [loc EXCEPT !.cards = renderAgentCards(loc.filteredAgents),
                !.cardType = loc.currentTransactionType,
                !.markers = renderMapMarkers(loc.filteredAgents),
                !.activeCards = {},
                !.highlighted = {},
                !.activeMarker = IF loc.activeMarker = NoMarker THEN NoMarker
                                 ELSE RemovedMarker]

\* populateFilters (lines 747-771): every option but the first is removed
\* and options for the provinces and cities of the collection are added;
\* removing the selected option leaves the first option, '', selected.
populateFilters(loc) == [loc EXCEPT !.region = "", !.area = ""]

\* The values of the options of #region-filter and #area-filter.
RegionOptions(loc) == {""} \cup ({ loc.agents[i].province : i \in 1..Len(loc.agents) } \ {""})
AreaOptions(loc) == {""} \cup ({ loc.agents[i].city : i \in 1..Len(loc.agents) } \ {""})

\* setActiveCard (lines 334-337) for the cards at the positions.
setActiveCard(loc, positions) == [loc EXCEPT !.activeCards = positions]

\* focusOnAgent (lines 455-481): the cards with the id of the agent.
focusOnAgent(loc, agent) ==
    LET found == { i \in 1..Len(loc.cards) : loc.cards[i] = agent.id }
    IN  IF agent.latitude = "" \/ agent.longitude = "" THEN loc
        ELSE IF found = {} THEN loc
        ELSE setActiveCard(loc, found)

\* highlightMarker (lines 486-495) for the marker at position k of the map.
highlightMarker(loc, k) ==
    LET marker == [kind |-> "shown", at |-> k]
        reset == IF loc.activeMarker.kind = "shown" /\ loc.activeMarker # marker
                 THEN loc.highlighted \ {loc.activeMarker.at}
                 ELSE loc.highlighted
    IN  [loc EXCEPT !.highlighted = reset \cup {k}, !.activeMarker = marker]

\* The click and Enter handler of the card at position k (lines 305-314).
CardSelected(loc, k) ==
    setActiveCard(focusOnAgent(loc, loc.filteredAgents[k]), {k})

\* The click handler of the marker at position k (lines 386-389).
MarkerSelected(loc, k) ==
    LET agents == SelectSeq(loc.filteredAgents,
                            LAMBDA agent : agent.latitude # "" /\ agent.longitude # "")
    IN  highlightMarker(focusOnAgent(loc, agents[k]), k)

\* clearActiveStates (lines 785-791).
clearActiveStates(loc) ==
    [loc EXCEPT !.activeCards = {},
                !.highlighted = IF loc.activeMarker.kind = "shown"
                                THEN loc.highlighted \ {loc.activeMarker.at}
                                ELSE loc.highlighted,
                !.activeMarker = NoMarker]

\* performSearch (lines 500-517).
performSearch(loc) ==
    LET searchTerm == NormalTerm(loc.searchTerm)
        searched == [loc EXCEPT !.filteredAgents =
                         IF searchTerm = <<>> THEN loc.agents
                         ELSE SelectSeq(loc.agents,
                                        LAMBDA agent : searchInAgent(agent, searchTerm))]
    IN  updateDisplay(applyCurrentFilters(searched))

\* applyFilters (lines 696-699).
applyFilters(loc) == updateDisplay(applyCurrentFilters(loc))

\* What a handler run of the locator leaves in locator.did: the event
\* handled, whether it issued a request, the toasts it showed with
\* showMessage, in order, and the text of the latest ("" for none; a toast
\* removes itself after four seconds), and for a completed load its outcome,
\* the size of the batch and how many agents of the batch had an id the
\* collection already held.
Did(event) ==
    [event |-> event, issued |-> FALSE, message |-> "", toasts |-> <<>>,
     outcome |-> "none", size |-> 0, known |-> 0, agent |-> 0]

\* showMessage (lines 832-884): one more toast is appended to the page.
showMessage(loc, message) ==
    [loc EXCEPT !.did.message = message, !.did.toasts = Append(@, message)]

\* clearFilters (lines 675-691); setting a value from a script fires no
\* input or change event.
clearFilters(loc) ==
    LET reset == [loc EXCEPT !.searchTerm = <<>>, !.region = "", !.area = "",
                             !.sortBy = "name", !.filteredAgents = loc.agents]
    IN  showMessage(updateDisplay(clearActiveStates(reset)), "Filters cleared")

\* processAgentsData(newAgents) for an array (lines 209-236): the locator
\* state afterwards.
processAgentsData(loc, newAgents) ==
    LET validNewAgents == FilterNew(newAgents, loc.agents)
        merged == loc.agents \o validNewAgents
        shown == populateFilters(updateDisplay([loc EXCEPT !.agents = merged,
                                                           !.filteredAgents = merged]))
    IN  IF validNewAgents = <<>> THEN loc
        ELSE IF Len(merged) = Len(validNewAgents) THEN showMessage(shown, "Found agents")
        ELSE shown

\* Mutant of LoadErrorMessage: nothing to show.
NoLoadErrorMessage(outcome) == ""

\* The message of the catch block (lines 187-199): for a failed request by
\* its status, below 500 with the message of its body if it has one; the
\* Error thrown at line 184 has neither status nor responseJSON.
LoadErrorMessage(outcome) ==
    IF outcome.kind = "failed" /\ outcome.status = 0
    THEN "Failed to load agents. Please check your internet connection."
    ELSE IF outcome.kind = "failed" /\ outcome.status >= 500
    THEN "Failed to load agents. Server error occurred."
    ELSE IF outcome.kind = "failed" /\ outcome.message # ""
    THEN "Failed to load agents. " \o outcome.message
    ELSE "Failed to load agents. Please try again later."

KnownIn(batch, agents) == Cardinality({ i \in 1..Len(batch) : HasId(agents, batch[i].id) })

\* Mutant of loadAgents: the isLoading test left out.
loadAgentsUnguarded(loc, place, showLoading, event) ==
    [loc EXCEPT !.isLoading = TRUE,
                !.loadingShown = IF showLoading THEN TRUE ELSE loc.loadingShown,
                !.requests = Append(loc.requests,
                                    [place |-> place, cashin |-> loc.currentTransactionType,
                                     showLoading |-> showLoading]),
                !.did = [Did(event) EXCEPT !.issued = TRUE]]

\* loadAgents up to its await (lines 160-179): nothing when a load is under
\* way, else the flag, the loading indicator and the request.
loadAgents(loc, place, showLoading, event) ==
    IF loc.isLoading THEN [loc EXCEPT !.did = Did(event)]
    ELSE [loc EXCEPT !.isLoading = TRUE,
                     !.loadingShown = IF showLoading THEN TRUE ELSE loc.loadingShown,
                     !.requests = Append(loc.requests,
                                         [place |-> place,
                                          cashin |-> loc.currentTransactionType,
                                          showLoading |-> showLoading]),
                     !.did = [Did(event) EXCEPT !.issued = TRUE]]

\* The cashin values (line 175) of the requests that returned the agents of
\* the collection: the agents the handler added came with request.
LoadedAs(loc, after, request) ==
    IF Len(after.agents) > Len(loc.agents)
    THEN loc.agentTypes \cup {request.cashin}
    ELSE loc.agentTypes

\* Mutant of loadAgentsResume: the finally block runs after a processed
\* response only.
loadAgentsResumeNoFinally(loc, i, outcome) ==
    LET request == loc.requests[i]
        start == [loc EXCEPT !.did = [Did("loaded") EXCEPT
                                          !.outcome = outcome.kind,
                                          !.size = Len(outcome.agents),
                                          !.known = KnownIn(outcome.agents, loc.agents)]]
        tried == IF outcome.kind = "agents" THEN processAgentsData(start, outcome.agents)
                 ELSE IF outcome.kind = "notArray" THEN start
                 ELSE showMessage(start, LoadErrorMessage(outcome))
        ended == outcome.kind = "agents"
    IN  [tried EXCEPT !.isLoading = ~ended,
                      !.loadingShown = IF ended /\ request.showLoading THEN FALSE
                                       ELSE tried.loadingShown,
                      !.requests = RemoveAt(loc.requests, i),
                      !.agentTypes = LoadedAs(loc, tried, request)]

\* loadAgents after its await (lines 181-203) for request i and its outcome:
\* the try block, the catch block and the finally block.
loadAgentsResume(loc, i, outcome) ==
    LET request == loc.requests[i]
        start == [loc EXCEPT !.did = [Did("loaded") EXCEPT
                                          !.outcome = outcome.kind,
                                          !.size = Len(outcome.agents),
                                          !.known = KnownIn(outcome.agents, loc.agents)]]
        tried == IF outcome.kind = "agents" THEN processAgentsData(start, outcome.agents)
                 ELSE IF outcome.kind = "notArray" THEN start
                 ELSE showMessage(start, LoadErrorMessage(outcome))
    IN  [tried EXCEPT !.isLoading = FALSE,
                      !.loadingShown = IF request.showLoading THEN FALSE ELSE tried.loadingShown,
                      !.requests = RemoveAt(loc.requests, i),
                      !.agentTypes = LoadedAs(loc, tried, request)]

\* The locator after init(): the seed timers of loadInitialAgents are set and
\* the welcome message is shown.
LocInit ==
    locator = [agents |-> <<>>, filteredAgents |-> <<>>, cards |-> <<>>, markers |-> <<>>,
               currentTransactionType |-> "0", isLoading |-> FALSE,
               loadingShown |-> FALSE, requests |-> <<>>, seeded |-> 0,
               searchTerm |-> <<>>, searchTimer |-> FALSE, region |-> "", area |-> "",
               sortBy |-> "name", activeCards |-> {}, highlighted |-> {},
               activeMarker |-> NoMarker,
               nearMeDisabled |-> FALSE, geoPending |-> FALSE, userLocation |-> "",
               agentTypes |-> {}, cardType |-> "0",
               did |-> [Did("init") EXCEPT
                            !.message = "Welcome! Loading EcoCash agents across Zimbabwe...",
                            !.toasts = <<"Welcome! Loading EcoCash agents across Zimbabwe...">>]]

\* The next timer of loadInitialAgents fires (lines 150-154).
SeedTimer ==
    /\ locator.seeded < Len(majorCities)
    /\ locator' = [loadAgents(locator, majorCities[locator.seeded + 1],
                              locator.seeded = 0, "seed")
                       EXCEPT !.seeded = locator.seeded + 1]
    /\ UNCHANGED calcVars

\* The user picks a transaction type (lines 123-126).
ChangeTransactionType(value) ==
    /\ value # locator.currentTransactionType
    /\ locator' = loadAgents([locator EXCEPT !.currentTransactionType = value],
                             "center", TRUE, "type")
    /\ UNCHANGED calcVars

\* The request i of the locator ends with the outcome.
LoadCompletes(i, outcome) ==
    /\ locator' = loadAgentsResume(locator, i, outcome)
    /\ UNCHANGED calcVars

(***************************************************************************)
(* Near me (findNearMe, lines 539-596).                                    *)
(***************************************************************************)
\* The positions getCurrentPosition can report, and the codes of its errors:
\* PERMISSION_DENIED, POSITION_UNAVAILABLE, TIMEOUT, and one more.
Positions == {"P1", "P2"}

GeoErrorCodes == {0, 1, 2, 3}

\* The message of the error callback (lines 571-585).
GeoErrorMessage(code) ==
    CASE code = 1 -> "Unable to get your location. Please enable location permissions."
      [] code = 2 -> "Unable to get your location. Location information unavailable."
      [] code = 3 -> "Unable to get your location. Location request timed out."
      [] OTHER -> "Unable to get your location. Please try again."

\* The outcomes of the loads of GeoSpec.
GeoOutcomes ==
    { [kind |-> "agents", agents |-> <<Agent(2, "Beta Shop", "Harare")>>, status |-> 200, message |-> ""],
      [kind |-> "failed", agents |-> <<>>, status |-> 0, message |-> ""] }

\* findNearMe up to getCurrentPosition (lines 539-548); supported tells
\* whether the browser has navigator.geolocation.
findNearMe(loc, supported) ==
    IF ~supported
    THEN showMessage(loc, "Geolocation is not supported by your browser.")
    ELSE [loc EXCEPT !.nearMeDisabled = TRUE, !.geoPending = TRUE]

\* The success callback of getCurrentPosition (lines 549-569).
PositionFound(loc, position) ==
    LET located == [loc EXCEPT !.userLocation = position, !.geoPending = FALSE]
        loaded == loadAgents(located, position, TRUE, "located")
    IN  [showMessage(loaded, "Location found! Showing nearby agents...")
            EXCEPT !.nearMeDisabled = FALSE]

\* Mutant of PositionFailed: the button stays disabled.
PositionFailedButtonOff(loc, code) ==
    showMessage([loc EXCEPT !.did = Did("geoerror"), !.geoPending = FALSE],
                GeoErrorMessage(code))

\* The error callback of getCurrentPosition (lines 570-589).
PositionFailed(loc, code) ==
    showMessage([loc EXCEPT !.did = Did("geoerror"), !.nearMeDisabled = FALSE,
                            !.geoPending = FALSE],
                GeoErrorMessage(code))

\* A click on #near-me-btn (line 116); a disabled button takes no click.
NearMeClick(supported) ==
    /\ ~locator.nearMeDisabled
    /\ locator' = findNearMe([locator EXCEPT !.did = Did("nearme")], supported)
    /\ UNCHANGED calcVars

\* The browser reports the position.
GeoSuccess(position) ==
    /\ locator.geoPending
    /\ locator' = PositionFound(locator, position)
    /\ UNCHANGED calcVars

\* The browser reports that it has no position.
GeoError(code) ==
    /\ locator.geoPending
    /\ locator' = PositionFailed(locator, code)
    /\ UNCHANGED calcVars

\* The user edits #agent-search: the input handler (line 107) starts the
\* debounce timer anew.
TypeSearch(text) ==
    /\ text # locator.searchTerm
    /\ locator' = [locator EXCEPT !.searchTerm = text, !.searchTimer = TRUE,
                                  !.did = Did("typed")]
    /\ UNCHANGED calcVars

\* The debounce timer ends (lines 900-910) and calls performSearch.
SearchTimerFires ==
    /\ locator.searchTimer
    /\ locator' = performSearch([locator EXCEPT !.searchTimer = FALSE, !.did = Did("search")])
    /\ UNCHANGED calcVars

\* Enter in #agent-search (lines 108-113).
SearchEnter ==
    /\ locator' = performSearch([locator EXCEPT !.did = Did("search")])
    /\ UNCHANGED calcVars

\* The values of #sort-filter that sortAgents tells apart.
SortOptions == {"name", "distance"}

\* The change handlers of #region-filter, #area-filter and #sort-filter
\* (line 120).
ChangeRegion(value) ==
    /\ value # locator.region
    /\ locator' = applyFilters([locator EXCEPT !.region = value, !.did = Did("filter")])
    /\ UNCHANGED calcVars

ChangeArea(value) ==
    /\ value # locator.area
    /\ locator' = applyFilters([locator EXCEPT !.area = value, !.did = Did("filter")])
    /\ UNCHANGED calcVars

ChangeSort(value) ==
    /\ value # locator.sortBy
    /\ locator' = applyFilters([locator EXCEPT !.sortBy = value, !.did = Did("filter")])
    /\ UNCHANGED calcVars

\* #clear-btn (line 117).
ClearClick ==
    /\ locator' = clearFilters([locator EXCEPT !.did = Did("clear")])
    /\ UNCHANGED calcVars

\* A click on the card at position k, or Enter on it.
CardClick(k) ==
    /\ locator' = CardSelected([locator EXCEPT !.did = [Did("card") EXCEPT
                                                            !.agent = locator.cards[k]]], k)
    /\ UNCHANGED calcVars

\* A click on the marker at position k; a click on a marker is no click on
\* the map.
MarkerClick(k) ==
    /\ locator' = MarkerSelected([locator EXCEPT !.did = [Did("marker") EXCEPT
                                                              !.agent = locator.markers[k]]], k)
    /\ UNCHANGED calcVars

\* Escape anywhere in the document (lines 129-133) or a click on the map
\* (lines 92-94): both handlers call clearActiveStates and nothing else.
EscapeOrMapClick ==
    /\ locator' = clearActiveStates([locator EXCEPT !.did = Did("escape")])
    /\ UNCHANGED calcVars


(***************************************************************************)
(* Initial state and specifications.                                       *)
(***************************************************************************)
CalcInit ==
    /\ amountVal = <<>>
    /\ currencyVal = ""
    /\ typeVal = <<>>
    /\ amountFocused = FALSE
    /\ hasError = {}
    /\ errorText = NoErrors.errorText
    /\ warning = ""
    /\ limitExceeded = FALSE
    /\ results = HiddenResults
    /\ clearHint = FALSE
    /\ calcPending = <<>>
    /\ fades = 0
    /\ last = Idle("ready")

Init == CalcInit /\ LocInit

\* The calculator with its inputs drawn from the given sets.
CalcNext(amounts, currencies, types, responses, bodies, maxPending) ==
    \/ \E text \in amounts : InputAmount(text)
    \/ FocusAmount
    \/ BlurAmount
    \/ ChangeAmount
    \/ \E currency \in currencies : ChangeCurrency(currency)
    \/ \E type \in types : ChangeType(type)
    \/ CalculateClick(maxPending)
    \/ \E i \in 1..Len(calcPending) : \E response \in responses : AjaxSuccess(i, response)
    \/ \E i \in 1..Len(calcPending) : \E xhr \in bodies : AjaxError(i, xhr)
    \/ ClearButtonClick
    \/ AutoClearLinkClick
    \/ ClearShortcut
    \/ FadeOutDone

\* Spec: every form input, one request at a time, answered by a success
\* response of the current format or by a transport error.
FormResponses ==
    { [Scalar("object") EXCEPT !.success = sc, !.responseMessage = rm] :
        sc \in {"true"}, rm \in {""} }
FormErrorBodies == { [json |-> "invalid", message |-> ""] }

Next ==
    CalcNext(AmountInputs, CurrencyOptions, TypeOptions, FormResponses, FormErrorBodies,
             MaxPending)

Spec == Init /\ [][Next]_vars

\* RespSpec: one valid form, every response value and error body.
RespNext ==
    CalcNext(RespAmounts, {"USD", "ZWG"}, {sendmoney}, JsonResponses, ErrorBodies, MaxPending)

RespSpec == Init /\ [][RespNext]_vars

\* RaceSpec: one valid form and one more request in flight than MaxPending.
RaceNext ==
    CalcNext(RespAmounts, {"USD", "ZWG"}, {cashout}, FormResponses, FormErrorBodies,
             MaxPending + 1)

RaceSpec == Init /\ [][RaceNext]_vars

\* LocSpec: the loads of the locator.
LocNext ==
    \/ SeedTimer
    \/ \E value \in {"0", "1"} : ChangeTransactionType(value)
    \/ \E i \in 1..Len(locator.requests) : \E outcome \in LoadOutcomes : LoadCompletes(i, outcome)

LocSpec == Init /\ [][LocNext]_vars

\* LocFairSpec: the loads of the locator with one outcome of each kind, and
\* every request ends; $.ajax is called with timeout: 30000 (line 178), so a
\* request without an answer fails after 30 seconds.
EndOutcomes ==
    { [kind |-> "agents", agents |-> <<Agent(2, "Beta Shop", "Harare")>>, status |-> 200, message |-> ""],
      [kind |-> "notArray", agents |-> <<>>, status |-> 200, message |-> ""],
      [kind |-> "noSuccess", agents |-> <<>>, status |-> 200, message |-> ""],
      [kind |-> "failed", agents |-> <<>>, status |-> 0, message |-> ""] }

LocFairNext ==
    \/ SeedTimer
    \/ \E value \in {"0", "1"} : ChangeTransactionType(value)
    \/ \E i \in 1..Len(locator.requests) : \E outcome \in EndOutcomes : LoadCompletes(i, outcome)

LocFairSpec ==
    /\ Init
    /\ [][LocFairNext]_vars
    /\ WF_vars(\E i \in 1..Len(locator.requests) :
                   \E outcome \in EndOutcomes : LoadCompletes(i, outcome))

\* ViewSpec: the seed loads with the agents of ViewOutcomes, and what the
\* user does with the list and the map.
ViewNext ==
    \/ SeedTimer
    \/ \E i \in 1..Len(locator.requests) : \E outcome \in ViewOutcomes : LoadCompletes(i, outcome)
    \/ \E text \in SearchInputs : TypeSearch(text)
    \/ SearchTimerFires
    \/ SearchEnter
    \/ \E value \in RegionOptions(locator) : ChangeRegion(value)
    \/ \E value \in AreaOptions(locator) : ChangeArea(value)
    \/ \E value \in SortOptions : ChangeSort(value)
    \/ ClearClick
    \/ \E k \in 1..Len(locator.cards) : CardClick(k)
    \/ \E k \in 1..Len(locator.markers) : MarkerClick(k)
    \/ EscapeOrMapClick

ViewSpec == Init /\ [][ViewNext]_vars

\* GeoSpec: the seed loads, the transaction type and the near-me button.
GeoNext ==
    \/ SeedTimer
    \/ \E value \in {"0", "1"} : ChangeTransactionType(value)
    \/ \E i \in 1..Len(locator.requests) : \E outcome \in GeoOutcomes : LoadCompletes(i, outcome)
    \/ \E supported \in BOOLEAN : NearMeClick(supported)
    \/ \E position \in Positions : GeoSuccess(position)
    \/ \E code \in GeoErrorCodes : GeoError(code)

GeoSpec == Init /\ [][GeoNext]_vars

(***************************************************************************)
(* Claims about the fee calculator.                                        *)
(***************************************************************************)
\* The rules of the form, stated on the field values.
AmountOk(text) ==
    LET amount == trim(text)
    IN  amount # <<>> /\ ~isNaN(amount) /\ GreaterThan(parseFloat(amount), 0)

Ceiling(currency) == IF currency = "USD" THEN UsdCeiling ELSE ZwgCeiling

CeilingMessage(currency) == IF currency = "USD" THEN MsgUsdLimit ELSE MsgZwgLimit

AboveCeiling(text, currency) ==
    /\ currency \in {"USD", "ZWG"}
    /\ GreaterThan(parseFloat(text), Ceiling(currency))

\* The state right after a click of the calculate button (the click leaves
\* the three fields as they were).
Clicked == last.event = "calculate"

\* C1: a click with a currency of USD or ZWG, a non-empty numeric amount
\* above zero and a transaction type issues a request when the amount is at
\* or below the ceiling of the currency, and none when it is above.
C1_CeilingDecidesRequest ==
    (Clicked /\ currencyVal \in {"USD", "ZWG"} /\ AmountOk(amountVal) /\ typeVal # <<>>)
        => (Len(last.requests) = 1 <=> ~AboveCeiling(trim(amountVal), currencyVal))

\* C1 witness: a padded amount of exactly 500 USD was submitted.
C1_Witness ==
    /\ Clicked /\ currencyVal = "USD" /\ typeVal # <<>>
    /\ amountVal = <<" ", "5", "0", "0", " ">>
    /\ Len(last.requests) = 1 /\ Len(calcPending) = 1

\* C2 (as claimed): every click with a numeric amount above the ceiling of
\* the selected currency is rejected with the ceiling message on the amount
\* field, whatever the transaction type field holds.
C2_OverCeilingShowsCeilingMessage ==
    (Clicked /\ ~isNaN(trim(amountVal)) /\ AboveCeiling(trim(amountVal), currencyVal))
        => /\ last.requests = <<>>
           /\ errorText["ecocash-amount"] = CeilingMessage(currencyVal)
           /\ warning = CeilingMessage(currencyVal)

\* C3: a click issues no request unless the three fields obey their rules,
\* and every field that breaks its rule carries a field error after the click.
C3_InvalidFieldsAllReported ==
    Clicked =>
        /\ last.requests # <<>> =>
               AmountOk(amountVal) /\ currencyVal # "" /\ typeVal # <<>>
        /\ ~AmountOk(amountVal) =>
               "ecocash-amount" \in hasError /\ errorText["ecocash-amount"] # ""
        /\ currencyVal = "" =>
               /\ "ecocash-currency" \in hasError
               /\ errorText["ecocash-currency"] = MsgSelectCurrency
        /\ typeVal = <<>> =>
               /\ "ecocash-transaction-type" \in hasError
               /\ errorText["ecocash-transaction-type"] = MsgSelectType

\* C3 witness: a click with a non-numeric amount, no currency and no type
\* marked all three fields.
C3_Witness ==
    /\ Clicked /\ hasError = Fields /\ last.requests = <<>>
    /\ errorText["ecocash-amount"] = MsgNotNumber

\* C4: a click that passes the validation and the ceiling check issues exactly
\* one request, whose transaction type is the selected type in upper case.
C4_OneRequestUpperCaseType ==
    (/\ Clicked
     /\ AmountOk(amountVal) /\ currencyVal # "" /\ typeVal # <<>>
     /\ ~AboveCeiling(trim(amountVal), currencyVal))
        => /\ Len(last.requests) = 1
           /\ last.requests[1].transactionType = toUpperCase(typeVal)
           /\ last.requests[1].currency = currencyVal
           /\ last.requests[1].amount = trim(amountVal)

\* C4 witness: ZWG with the selection sendmoney was submitted as SENDMONEY.
C4_Witness ==
    /\ Clicked /\ currencyVal = "ZWG" /\ typeVal = sendmoney
    /\ Len(last.requests) = 1 /\ last.requests[1].transactionType = SENDMONEY

\* What C5 expects of a response object: "showSuccess" or "showError".
ExpectedCall(response) ==
    LET legacy == IF response.response.type # "absent" THEN response.response ELSE response
    IN  IF response.success = "true" THEN "showSuccess"
        ELSE IF response.success = "false" THEN "showError"
        ELSE IF \/ legacy.status = "200"
                \/ legacy.statusMessage = "SUCCEEDED"
                \/ legacy.responseCode = "00"
        THEN "showSuccess"
        ELSE "showError"

\* C5: every response object is rendered exactly once: the breakdown for
\* success true, an error (responseMessage, else message, else the default)
\* for success false, and without a boolean flag the breakdown exactly when
\* the legacy response has status "200", statusMessage "SUCCEEDED" or
\* responseCode "00".
C5_OneRenderingPerResponse ==
    (last.event = "success" /\ last.response.type = "object") =>
        /\ Len(last.renders) = 1
        /\ last.renders[1].fn = ExpectedCall(last.response)
        /\ results.visible
        /\ results.kind = (IF ExpectedCall(last.response) = "showSuccess"
                           THEN "breakdown" ELSE "error")
        /\ results.kind = "error" => results.msg = last.renders[1].msg /\ results.msg # ""
        /\ last.response.success = "false" =>
               results.msg = (IF last.response.responseMessage # ""
                              THEN last.response.responseMessage
                              ELSE IF last.response.message # ""
                              THEN last.response.message
                              ELSE MsgFailed)

\* C5 witness: a nested legacy response whose only success mark is
\* responseCode "00" was rendered as a breakdown.
C5_Witness ==
    /\ last.event = "success" /\ last.response.success = "absent"
    /\ last.response.response.type = "object"
    /\ last.response.response.responseCode = "00"
    /\ last.response.response.status = "" /\ last.response.response.statusMessage = ""
    /\ results.kind = "breakdown"

\* C6 (as claimed): every completion of a request, whatever JSON value or
\* transport error it brings, ends with a rendered result or error message.
C6_EveryCompletionRenders ==
    last.event \in {"success", "error"} =>
        /\ ~last.fault
        /\ Len(last.renders) = 1
        /\ results.visible /\ results.kind \in {"breakdown", "error"}

\* C7: right after clearCalculator the three fields are empty and no field
\* error or limit warning is shown, and the results container is hidden and
\* empty or fading out; when a fade-out ends the container is hidden and empty.
C7_ResetClearsEverything ==
    /\ last.event = "reset" =>
           /\ amountVal = <<>> /\ currencyVal = "" /\ typeVal = <<>>
           /\ hasError = {} /\ \A f \in Fields : errorText[f] = ""
           /\ warning = "" /\ ~limitExceeded
           /\ results.visible => fades > 0
           /\ ~results.visible => results.kind = "empty"
    /\ last.event = "fade" => ~results.visible /\ results.kind = "empty"

\* C7 witness: a reset was made and its fade-out has ended.
C7_Witness ==
    /\ last.event = "fade" /\ fades = 0 /\ results = HiddenResults
    /\ amountVal = <<>> /\ currencyVal = "" /\ typeVal = <<>> /\ hasError = {}

\* C8 (as claimed): after an input or change event on the amount or the
\* currency the limit warning and the limit-exceeded mark are shown exactly
\* when the amount parses as a number above the ceiling of the selected
\* currency.
C8_WarningTracksCeiling ==
    last.event = "input" =>
        /\ (warning # "") <=> AboveCeiling(amountVal, currencyVal)
        /\ limitExceeded <=> AboveCeiling(amountVal, currencyVal)
        /\ warning # "" => warning = CeilingMessage(currencyVal)

(***************************************************************************)
(* Claims about the agent locator.                                         *)
(***************************************************************************)
\* C9: no step adds to the collection an agent whose id the collection
\* already holds: the collection only grows at its end, and only by agents
\* with ids it did not hold before the step.
C9_KnownIdsNeverAddedAgain ==
    [][LET old == locator.agents
           new == locator'.agents
       IN  /\ Len(new) >= Len(old)
           /\ SubSeq(new, 1, Len(old)) = old
           /\ \A i \in (Len(old) + 1)..Len(new) : ~HasId(old, new[i].id)]_vars

\* C9 witness: a batch of two, one with an id of the collection and one with
\* a new id, was processed, and the collection holds one agent per id.
C9_Witness ==
    /\ locator.did.event = "loaded" /\ locator.did.outcome = "agents"
    /\ locator.did.size = 2 /\ locator.did.known = 1
    /\ Len(locator.agents) = 2
    /\ locator.agents[1].id = 1 /\ locator.agents[2].id = 2

\* C10: at most one locator request is in flight, and only while the
\* loading flag is set.
C10_AtMostOneInFlight ==
    /\ Len(locator.requests) <= 1
    /\ locator.requests # <<>> => locator.isLoading

\* C10 witness: loadAgents was called while a request was in flight, and
\* issued none.
C10_Witness ==
    /\ locator.did.event \in {"seed", "type"} /\ ~locator.did.issued
    /\ Len(locator.requests) = 1 /\ locator.isLoading

\* C11: every seed timer of loadInitialAgents issues a load request for its
\* city, so that the six cities are requested one after another.
C11_EverySeedCityRequested ==
    locator.did.event = "seed" => locator.did.issued

\* The five fields of an agent the search looks at, as characters.
SearchFields(agent) ==
    { Chars(agent.representative), Chars(agent.address), Chars(agent.city),
      Chars(agent.province), Chars(agent.msisdn) }

\* Ignoring letter case, the term is part of one of the five fields; the
\* empty term is part of everything.
TermIsPartOf(agent, term) ==
    term = <<>> \/ \E field \in SearchFields(agent) :
                      includes(toLowerCase(field), toLowerCase(term))

Displayed(agent) ==
    \E j \in 1..Len(locator.filteredAgents) : locator.filteredAgents[j] = agent

\* performSearch has run with no province and no city selected.
Searched ==
    locator.did.event = "search" /\ locator.region = "" /\ locator.area = ""

\* C12 as stated: after a search an agent of the collection is displayed
\* exactly when the term, as typed, is part of one of its five fields
\* ignoring letter case.
C12_TermAsTypedMatches ==
    Searched => \A i \in 1..Len(locator.agents) :
                    Displayed(locator.agents[i])
                        <=> TermIsPartOf(locator.agents[i], locator.searchTerm)

\* C12 amended: after a search an agent of the collection is displayed
\* exactly when the term without its leading and trailing blanks is part of
\* one of its five fields ignoring letter case; a term of blanks alone
\* matches every agent.
C12_TrimmedTermMatches ==
    Searched => \A i \in 1..Len(locator.agents) :
                    Displayed(locator.agents[i])
                        <=> TermIsPartOf(locator.agents[i], trim(locator.searchTerm))

\* C12 witness: a search for 'we ' over three agents displays the two agents
\* of Gweru.
C12_Witness ==
    /\ Searched /\ locator.searchTerm = <<"w", "e", " ">>
    /\ Len(locator.agents) = 3
    /\ IdsOf(locator.filteredAgents) = <<6, 4>>

\* C13: after applyFilters or performSearch the filtered list holds exactly
\* the agents of the collection that match the search term, the selected
\* province (if any) and the selected city (if any), each once.
C13_FilteredIsExactlyTheMatches ==
    locator.did.event \in {"search", "filter"} =>
        /\ \A i \in 1..Len(locator.agents) :
               Displayed(locator.agents[i])
                   <=> /\ TermIsPartOf(locator.agents[i], trim(locator.searchTerm))
                       /\ locator.region = "" \/ locator.agents[i].province = locator.region
                       /\ locator.area = "" \/ locator.agents[i].city = locator.area
        /\ \A j \in 1..Len(locator.filteredAgents) :
               /\ \E i \in 1..Len(locator.agents) : locator.agents[i] = locator.filteredAgents[j]
               /\ \A k \in 1..Len(locator.filteredAgents) :
                      locator.filteredAgents[k] = locator.filteredAgents[j] => k = j

\* C13 witness: the term 'BO', the province Midlands and the city Gweru
\* leave one of three agents.
C13_Witness ==
    /\ locator.did.event = "filter"
    /\ locator.searchTerm = <<"B", "O">>
    /\ locator.region = "Midlands" /\ locator.area = "Gweru"
    /\ Len(locator.agents) = 3
    /\ IdsOf(locator.filteredAgents) = <<4>>

\* applyCurrentFilters has just sorted the filtered list.
Sorted(sortBy) ==
    locator.did.event \in {"search", "filter"} /\ locator.sortBy = sortBy

HasDistance(agent) == agent.distance # <<>>

\* C14: after a sort by distance the filtered agents with a distance come
\* first, in ascending order of distance, and the agents without one come
\* last.
C14_DistanceAscendingUnknownLast ==
    Sorted("distance") =>
        \A i, j \in 1..Len(locator.filteredAgents) :
            LET a == locator.filteredAgents[i]
                b == locator.filteredAgents[j]
            IN  i < j =>
                    /\ HasDistance(b) => HasDistance(a)
                    /\ HasDistance(a) /\ HasDistance(b) => a.distance[1] <= b.distance[1]

PositionOf(agent) == CHOOSE i \in 1..Len(locator.agents) : locator.agents[i] = agent

\* C15: after a sort by name the filtered agents are in ascending order of
\* representative name, and agents with equal names are in the order of the
\* collection.
C15_NameAscendingStable ==
    Sorted("name") =>
        \A i, j \in 1..Len(locator.filteredAgents) :
            LET a == locator.filteredAgents[i]
                b == locator.filteredAgents[j]
            IN  i < j =>
                    /\ localeCompare(a.representative, b.representative) <= 0
                    /\ a.representative = b.representative => PositionOf(a) < PositionOf(b)

\* C15 witness: the collection Bo (5), Bo (4), Al (6) sorted by name is
\* Al (6), Bo (5), Bo (4).
C15_Witness ==
    /\ Sorted("name")
    /\ IdsOf(locator.agents) = <<5, 4, 6>>
    /\ IdsOf(locator.filteredAgents) = <<6, 5, 4>>

\* C16: the cards and the markers are the filtered agents, one card and one
\* marker for each, in the order of the list.
C16_CardsAndMarkersAreFiltered ==
    /\ locator.cards = IdsOf(locator.filteredAgents)
    /\ locator.markers = IdsOf(locator.filteredAgents)

\* C16 witness: a search has cut three agents down to two, shown as two
\* cards and two markers.
C16_Witness ==
    /\ locator.did.event = "search"
    /\ Len(locator.agents) = 3
    /\ Len(locator.filteredAgents) = 2
    /\ Len(locator.cards) = 2 /\ Len(locator.markers) = 2

\* C17: at most one card is active and at most one marker is highlighted;
\* right after a click on a card or a marker they belong to the agent
\* clicked; right after Escape or a click on the map there is none.
C17_OneSelectionAcrossListAndMap ==
    /\ Cardinality(locator.activeCards) <= 1
    /\ Cardinality(locator.highlighted) <= 1
    /\ locator.did.event \in {"card", "marker"} =>
           /\ \A k \in locator.activeCards : locator.cards[k] = locator.did.agent
           /\ \A k \in locator.highlighted : locator.markers[k] = locator.did.agent
    /\ locator.did.event = "escape" =>
           locator.activeCards = {} /\ locator.highlighted = {}

\* The messages of the catch block of loadAgents.
LoadFailureMessages ==
    { "Failed to load agents. Please check your internet connection.",
      "Failed to load agents. Server error occurred.",
      "Failed to load agents. Please try again later." }
    \cup { "Failed to load agents. " \o m : m \in LoadErrorBodies \ {""} }

\* C18: a load that fails (no connection, timeout, HTTP error, or a response
\* without success flag or agent list) shows exactly one message, an error
\* message, leaves the collection and the filtered list as they were, and
\* issues no request.
C18_FailedLoadReportedNoRetry ==
    [][(/\ Len(locator'.requests) < Len(locator.requests)
        /\ locator'.did.outcome \in {"failed", "noSuccess"})
       => /\ Len(locator'.did.toasts) = 1
          /\ locator'.did.toasts[1] \in LoadFailureMessages
          /\ locator'.did.message \in LoadFailureMessages
          /\ locator'.agents = locator.agents
          /\ locator'.filteredAgents = locator.filteredAgents
          /\ ~locator'.did.issued
          /\ Len(locator'.requests) = Len(locator.requests) - 1]_vars

\* C18 witness: a load failed with a server error while the collection held
\* agents, and nothing is in flight.
C18_Witness ==
    /\ locator.did.event = "loaded" /\ locator.did.outcome = "failed"
    /\ locator.did.toasts = <<"Failed to load agents. Server error occurred.">>
    /\ locator.did.message = "Failed to load agents. Server error occurred."
    /\ Len(locator.agents) = 2 /\ Len(locator.filteredAgents) = 2
    /\ locator.requests = <<>> /\ ~locator.isLoading

\* C19: a response that reports success with an agent list that is no list
\* shows a message to the user.
C19_MalformedListShowsMessage ==
    (locator.did.event = "loaded" /\ locator.did.outcome = "notArray")
        => locator.did.message # ""

\* The messages of the error callback of getCurrentPosition.
GeoFailureMessages ==
    { "Unable to get your location. Please enable location permissions.",
      "Unable to get your location. Location information unavailable.",
      "Unable to get your location. Location request timed out.",
      "Unable to get your location. Please try again." }

\* C20: when getCurrentPosition fails, an error message is shown, the button
\* is enabled, no load is issued, and the user location, the collection and
\* the filtered list stay as they were.
C20_GeoFailureLeavesStateAlone ==
    [][(locator.geoPending /\ locator'.did.event = "geoerror")
       => /\ locator'.did.message \in GeoFailureMessages
          /\ ~locator'.nearMeDisabled
          /\ ~locator'.did.issued
          /\ locator'.requests = locator.requests
          /\ locator'.isLoading = locator.isLoading
          /\ locator'.userLocation = locator.userLocation
          /\ locator'.agents = locator.agents
          /\ locator'.filteredAgents = locator.filteredAgents]_vars

\* C20 witness: after an earlier position fix and a load, a position request
\* timed out; the button is enabled and the earlier position is kept.
C20_Witness ==
    /\ locator.did.event = "geoerror"
    /\ locator.did.message = "Unable to get your location. Location request timed out."
    /\ ~locator.nearMeDisabled /\ ~locator.geoPending
    /\ locator.userLocation = "P1"
    /\ Len(locator.agents) = 1

\* C21: a change of the transaction type and a position fix of 'near me'
\* each issue a load request, and the request carries the transaction type
\* selected at that moment.
C21_ReloadIssuesRequestWithType ==
    locator.did.event \in {"type", "located"} =>
        /\ locator.did.issued
        /\ locator.requests # <<>>
        /\ locator.requests[Len(locator.requests)].cashin = locator.currentTransactionType

\* C22: every load that starts ends: the loading flag goes back to false
\* and a loading indicator that is shown is hidden again, whatever the
\* outcome; the step that ends a load resets the flag and, for a load that
\* showed the indicator, hides it.
C22_LoadEndsAndResetsFlag ==
    /\ locator.isLoading ~> ~locator.isLoading
    /\ locator.loadingShown ~> ~locator.loadingShown
    /\ [][Len(locator'.requests) < Len(locator.requests)
          => /\ ~locator'.isLoading
             /\ locator.requests[1].showLoading => ~locator'.loadingShown]_vars

\* C22 witness: the first seed load, started with the indicator shown, ended
\* with a list that is no array; the flag is false and the indicator hidden.
C22_Witness ==
    /\ locator.did.event = "loaded" /\ locator.did.outcome = "notArray"
    /\ locator.seeded = 1 /\ locator.currentTransactionType = "0"
    /\ ~locator.isLoading /\ ~locator.loadingShown
    /\ locator.requests = <<>>

\* C23: the ids of the agents of the collection are pairwise distinct.
C23_IdsPairwiseDistinct ==
    \A i, j \in 1..Len(locator.agents) :
        locator.agents[i].id = locator.agents[j].id => i = j

\* C24: once the search has run for the term in the search box, every agent
\* of the filtered list matches the term, the selected province (if any) and
\* the selected city (if any), after every operation.
C24_DisplayedAgentsMatchFilters ==
    ~locator.searchTimer =>
        \A j \in 1..Len(locator.filteredAgents) :
            /\ TermIsPartOf(locator.filteredAgents[j], trim(locator.searchTerm))
            /\ locator.region = "" \/ locator.filteredAgents[j].province = locator.region
            /\ locator.area = "" \/ locator.filteredAgents[j].city = locator.area

\* C25: while the sort selection is 'name' the filtered list is in ascending
\* order of representative name, after every operation.
C25_NameOrderAfterEveryOperation ==
    locator.sortBy = "name" =>
        \A i, j \in 1..Len(locator.filteredAgents) :
            i < j => localeCompare(locator.filteredAgents[i].representative,
                                   locator.filteredAgents[j].representative) <= 0

\* C26: the agents on display were all returned by requests made with the
\* transaction type their cards and popups are labelled with.
C26_DisplayedUnderTheTypeLoaded ==
    locator.cards # <<>> => locator.agentTypes \subseteq {locator.cardType}

(***************************************************************************)
(* Claims about the requests of the fee calculator in flight.              *)
(***************************************************************************)
\* A callback of $.ajax has just rendered a result or an error.
Rendered == last.event \in {"success", "error"} /\ last.renders # <<>>

\* C27: when the last of the outstanding requests has been answered, the
\* result on display is the one of the latest submission: the callback that
\* rendered it belongs to the latest request, or at least to a request with
\* the currency of the latest one.
C27_LatestSubmissionDisplayed ==
    (Rendered /\ calcPending = <<>> /\ ~last.cleared) =>
        last.latest \/ last.currency = last.newest

\* C28: a response to a submission made before the reset, with no submission
\* since, renders nothing; and what a submission made after the reset has
\* rendered is not wiped when the fadeOut of the reset ends.
C28_ResetStaysReset ==
    [][/\ (last' # last /\ Rendered' /\ last'.cleared /\ last'.latest)
              => results' = results
       /\ (fades' < fades /\ Rendered /\ ~last.cleared)
              => results' = results]_vars
====
